---------------------------- MODULE Spec2Model ----------------------------
(***************************************************************************)
(* A model of the rtm crate (src/src/lib.rs): the structured interface     *)
(* over Intel RTM.  The model covers                                       *)
(*   - the abort code registry: the abort_codes constants, the AbortCode   *)
(*     enum and the decoder into_abort;                                    *)
(*   - the executor transaction, the retry driver transaction_retry and    *)
(*     the abort trigger abort / abort_functions::abort_N;                 *)
(*   - the four RTM instructions the crate composes over (_xbegin, _xend,  *)
(*     _xabort, _xtest), with the hardware's speculative write buffer.     *)
(*                                                                         *)
(* A u32 is modelled as the set of its set bit positions, so that the      *)
(* shifts and additions of the source are computed bit by bit in 32-bit    *)
(* arithmetic and a carry out of bit 31 is visible.                        *)
(***************************************************************************)
EXTENDS Integers, Sequences, FiniteSets, TLC

(***************************************************************************)
(* 32-bit words                                                            *)
(***************************************************************************)

\* The width of u32, the type of the abort_codes constants and of the
\* value returned by _xbegin.
WordBits == 32

BitPos == 0 .. (WordBits - 1)

\* The u32 with value n, for a literal n < 2^31 of the source.
U32(n) == { k \in 0 .. (WordBits - 2) : (n \div (2 ^ k)) % 2 = 1 }

\* x << n on u32: bits shifted past bit 31 are dropped.
Shl(x, n) == { k + n : k \in x } \cap BitPos

\* x >> n on u32.
Shr(x, n) == { k - n : k \in x } \cap BitPos

\* The carry into bit k of x + y: some lower bit j generates a carry (both
\* addends have it) and every bit between j and k propagates it.
CarryInto(x, y, k) ==
    \E j \in 0 .. (k - 1) :
        /\ j \in x
        /\ j \in y
        /\ \A i \in (j + 1) .. (k - 1) : i \in x \/ i \in y

\* x + y on u32: the 32 sum bits, and "overflow", the carry out of bit 31.
Add32(x, y) ==
    [bits |-> { k \in BitPos :
                  ((k \in x) # (k \in y)) # CarryInto(x, y, k) },
     overflow |-> CarryInto(x, y, WordBits)]

\* The borrow into bit k of x - y: some lower bit j generates a borrow (y
\* has it, x has not) and no bit between j and k absorbs it.
BorrowInto(x, y, k) ==
    \E j \in 0 .. (k - 1) :
        /\ j \notin x
        /\ j \in y
        /\ \A i \in (j + 1) .. (k - 1) : i \notin x \/ i \in y

\* x - y on u32: the 32 difference bits, and "overflow", the borrow out of
\* bit 31.
Sub32(x, y) ==
    [bits |-> { k \in BitPos :
                  ((k \in x) # (k \in y)) # BorrowInto(x, y, k) },
     overflow |-> BorrowInto(x, y, WordBits)]

\* x as u8: the value of the low eight bits of x.
AsU8(x) ==
    LET b(k) == IF k \in x THEN 2 ^ k ELSE 0
    IN  b(0) + b(1) + b(2) + b(3) + b(4) + b(5) + b(6) + b(7)

(***************************************************************************)
(* The abort code registry                                                 *)
(***************************************************************************)

\* The explicit codes: the u8 range of abort(code: u8).
Codes == 0 .. 255

\* The codes the modelled bodies pass to abort and _xabort, and the explicit
\* codes undefined behaviour is let return.
SampleCodes == {0, 7, 255}

\* code_gen! shifting by 25 instead of 24: the top bit of the code is lost.
code_gen_shift25(value) == Add32(Shl(U32(value), 25), U32(1))

\* code_gen! shifting by 23 instead of 24.
code_gen_shift23(value) == Add32(Shl(U32(value), 23), U32(1))

\* code_gen!: pub const $name: u32 = ($value << 24) + 1, with its overflow
\* flag (an overflowing constant is rejected by the compiler).
code_gen(value) == Add32(Shl(U32(value), 24), U32(1))

\* The constant abort_codes::abort_<c>.
abort_codes(c) == code_gen(c).bits

\* The 256 constants of mod abort_codes, as the table the match arms and
\* the enum discriminants refer to.
abort_codes_table == [c \in Codes |-> abort_codes(c)]

\* enum AbortCode: five built-in reasons and Code0 .. Code255.
Retry == [tag |-> "Retry", n |-> 0]
Conflict == [tag |-> "Conflict", n |-> 0]
Capacity == [tag |-> "Capacity", n |-> 0]
Debug == [tag |-> "Debug", n |-> 0]
Nested == [tag |-> "Nested", n |-> 0]
Code(c) == [tag |-> "Code", n |-> c]

BuiltIn == {Retry, Conflict, Capacity, Debug, Nested}

AbortCode == BuiltIn \cup { Code(c) : c \in Codes }

\* The #[repr(u32)] discriminant of an AbortCode variant.
AbortCodeRepr(a) ==
    CASE a = Retry -> U32(2)
      [] a = Conflict -> U32(4)
      [] a = Capacity -> U32(8)
      [] a = Debug -> U32(16)
      [] a = Nested -> U32(32)
      [] OTHER -> abort_codes_table[a.n]

\* Result<(), AbortCode>, and the outcome of undefined behaviour that is
\* no value of that type.
NoCode == [tag |-> "None", n |-> 0]
Ok == [kind |-> "Ok", code |-> NoCode]
Err(a) == [kind |-> "Err", code |-> a]
Undefined == [kind |-> "Undefined", code |-> NoCode]
NoResult == [kind |-> "None", code |-> NoCode]

\* std::hint::unreachable_unchecked(): undefined behaviour.  The build may
\* return any value of the result type (of the explicit codes, the sample
\* ones stand for all), or no value of it at all (a trap, an invalid
\* discriminant).
unreachable_unchecked ==
    {Ok, Undefined} \cup { Err(a) : a \in BuiltIn }
    \cup { Err(Code(c)) : c \in SampleCodes }

\* into_abort without the arm of abort_255.
into_abort_missing_arm(x) ==
    IF x = U32(2) THEN {Err(Retry)}
    ELSE IF x = U32(4) THEN {Err(Conflict)}
    ELSE IF x = U32(8) THEN {Err(Capacity)}
    ELSE IF x = U32(16) THEN {Err(Debug)}
    ELSE IF x = U32(32) THEN {Err(Nested)}
    ELSE IF \E c \in 0 .. 254 : x = abort_codes_table[c]
    THEN {Err(Code(CHOOSE c \in 0 .. 254 : x = abort_codes_table[c]))}
    ELSE unreachable_unchecked

\* into_abort with the arms of 2 and 4 exchanged.
into_abort_swapped(x) ==
    IF x = U32(2) THEN {Err(Conflict)}
    ELSE IF x = U32(4) THEN {Err(Retry)}
    ELSE IF x = U32(8) THEN {Err(Capacity)}
    ELSE IF x = U32(16) THEN {Err(Debug)}
    ELSE IF x = U32(32) THEN {Err(Nested)}
    ELSE IF \E c \in Codes : x = abort_codes_table[c]
    THEN {Err(Code(CHOOSE c \in Codes : x = abort_codes_table[c]))}
    ELSE unreachable_unchecked

\* fn into_abort(x: u32) -> Result<(), AbortCode>: the set of results the
\* call can produce.  The match compares x with 261 constants for equality;
\* every other x reaches the default arm.
into_abort(x) ==
    IF x = U32(2) THEN {Err(Retry)}
    ELSE IF x = U32(4) THEN {Err(Conflict)}
    ELSE IF x = U32(8) THEN {Err(Capacity)}
    ELSE IF x = U32(16) THEN {Err(Debug)}
    ELSE IF x = U32(32) THEN {Err(Nested)}
    ELSE IF \E c \in Codes : x = abort_codes_table[c]
    THEN {Err(Code(CHOOSE c \in Codes : x = abort_codes_table[c]))}
    ELSE unreachable_unchecked


(***************************************************************************)
(* Hardware statuses                                                       *)
(***************************************************************************)

\* The value of _xbegin() when the transaction has started: 0xFFFFFFFF.
XBEGIN_STARTED == BitPos

\* The status _xabort(c) leaves in EAX: bit 0 set and c in bits 24..31.
XABORT_STATUS(c) == Shl(U32(c), 24) \cup {0}

\* The flag bits of an abort status: explicit, retry, conflict, capacity,
\* debug, nested.
FlagBits == 0 .. 5

\* Statuses of aborts the hardware forces on its own.  0 is the status of
\* an abort with no flag (an interrupt, a system call); 6 is retry and
\* conflict together.
HwStatusValues == {0, 2, 4, 6, 8, 16, 32}
HwAbortStatuses == { U32(n) : n \in HwStatusValues }

\* Statuses of an abort caused by another thread's access to the data of
\* the transaction: conflict, alone or together with retry.
ConflictStatusValues == {4, 6}
ConflictStatuses == { U32(n) : n \in ConflictStatusValues }

(***************************************************************************)
(* Bounds and inputs                                                       *)
(***************************************************************************)

\* The largest N of the Some(N) passed to transaction_retry.
MaxRetries == 3

\* The number of calls of the structured interface one thread makes.
MaxCalls == 2

Threads == {1, 2}

\* Option<usize>.
None == [some |-> FALSE, n |-> 0]
Some(n) == [some |-> TRUE, n |-> n]

\* into_code has not been called.
NoOption == [some |-> FALSE, n |-> -1]

\* into_code without its first arm: the built-in reasons are converted as
\* the explicit ones are.
into_code_all_explicit(a) ==
    Some(AsU8(Shr(Sub32(AbortCodeRepr(a), U32(1)).bits, 24)))

\* AbortCode::into_code(&self) -> Option<u8>: None for the five built-in
\* reasons; for any other variant, with value its u32 discriminant,
\* Some(((value - 1) >> 24) as u8).
into_code(a) ==
    IF a \in BuiltIn
    THEN None
    ELSE Some(AsU8(Shr(Sub32(AbortCodeRepr(a), U32(1)).bits, 24)))

\* The worked scenario of the crate's description: the body increments the
\* counter and calls abort(7) when the counter then equals 3; the retry
\* limit is Some(5).
ScenarioCode == 7
ScenarioThreshold == 3
ScenarioRetries == 5

RetriesArgs ==
    {None} \cup { Some(n) : n \in 0 .. MaxRetries } \cup {Some(ScenarioRetries)}

\* The statements of a body: *data += 1, crate::abort(c), the raw
\* crate::tsx::_xabort(c), and if *data == v { crate::abort(c) }.
Inc == [op |-> "inc", c |-> 0]
Abort(c) == [op |-> "abort", c |-> c]
XAbort(c) == [op |-> "xabort", c |-> c]
AbortIf(v, c) == [op |-> "abort_if", c |-> c, v |-> v]

ScenarioBody == <<Inc, AbortIf(ScenarioThreshold, ScenarioCode)>>

Bodies ==
    {<<Inc>>, ScenarioBody}
    \cup { <<Inc, Abort(c), Inc>> : c \in SampleCodes }
    \cup { <<Inc, XAbort(c)>> : c \in SampleCodes }

\* The statuses handed to the decoder on its own: every combination of the
\* six flag bits, with sample values of bits 6..23 and of the high byte.
MidBits == {{}, {6}, {23}}
HighBytes == {0, 1, 7, 255}
RawStatuses ==
    { f \cup m \cup Shl(U32(h), 24) :
        f \in SUBSET FlagBits, m \in MidBits, h \in HighBytes }

(***************************************************************************)
(* State                                                                   *)
(***************************************************************************)

VARIABLES
    data,      \* the shared S behind `data: &mut S`: a counter
    cpu,       \* per thread: the RTM state (active, speculative value)
    thr,       \* per thread: the position in the crate's code and its locals
    gh,        \* per thread: history of the current call: the _xbegin issued,
               \* the outcome of each attempt, data at the start of the call
               \* and of the attempt, the code abort was called with in the
               \* attempt, whether the attempt wrote, the forced aborts,
               \* the invocations of lambda and the _xend of the attempt
    live,      \* the threads that run
    code,      \* registry: the code last encoded, or -1
    word,      \* registry: the raw status under decode
    decoded,   \* registry: the decoder's result for word
    opt        \* registry: the result of into_code for the decoded reason

vars == <<data, cpu, thr, gh, live, code, word, decoded, opt>>

IdleThread ==
    [pc |-> "idle", api |-> "none", arg |-> None, retries |-> 0, curr |-> 0,
     body |-> <<>>, bpc |-> 1, status |-> {}, ret |-> NoResult,
     result |-> NoResult, calls |-> 0]

IdleCpu == [active |-> FALSE, wbuf |-> 0, touched |-> FALSE]

NoHistory ==
    [begins |-> 0, outcomes |-> <<>>, start |-> 0, snap |-> 0, trig |-> -1,
     dirty |-> FALSE, hw |-> 0, outside |-> FALSE, ran |-> 0, xends |-> 0]

InitThreads ==
    /\ data = 0
    /\ cpu = [t \in Threads |-> IdleCpu]
    /\ thr = [t \in Threads |-> IdleThread]
    /\ gh = [t \in Threads |-> NoHistory]

\* The registry has decoded nothing; the raw status 0 is at hand.
InitRegistry ==
    /\ code = -1
    /\ word = {}
    /\ decoded = NoResult
    /\ opt = NoOption

\* One thread runs; every other cause of an abort is a forced abort.
Init ==
    /\ InitThreads
    /\ InitRegistry
    /\ live = {1}

(***************************************************************************)
(* The RTM instructions                                                    *)
(***************************************************************************)

\* _xtest(): 1 while the thread executes transactionally, else 0.
xtest(t) == IF cpu[t].active THEN 1 ELSE 0

\* The value thread t reads from *data: its own speculative value once its
\* transaction has accessed the data, the value in memory otherwise.
View(t) == IF cpu[t].active /\ cpu[t].touched THEN cpu[t].wbuf ELSE data

\* Thread u runs a transaction that has accessed the data.
Holds(u) == u \in live /\ cpu[u].active /\ cpu[u].touched

\* Another thread's transaction has accessed the data before t does.
Contended(t) == \E u \in live \ {t} : Holds(u)

\* An abort that leaves the speculative writes in memory.
AbortTo_publishes(t, s) ==
    /\ cpu' = [cpu EXCEPT ![t] = IdleCpu]
    /\ thr' = [thr EXCEPT ![t] = [@ EXCEPT !.pc = "match", !.status = s]]
    /\ data' = View(t)

\* The hardware aborts t's transaction with status s: the speculative
\* writes are discarded and control resumes at the return of _xbegin.
AbortTo(t, s) ==
    /\ cpu' = [cpu EXCEPT ![t] = IdleCpu]
    /\ thr' = [thr EXCEPT ![t] = [@ EXCEPT !.pc = "match", !.status = s]]
    /\ data' = data

\* _xbegin(): the transaction starts and the call returns XBEGIN_STARTED.
\* An abort, even one that follows at once, makes the same call return a
\* second time with the abort status (AbortTo).
xbegin(t) ==
    /\ t \in live
    /\ thr[t].pc = "xbegin"
    /\ cpu' = [cpu EXCEPT ![t] = [IdleCpu EXCEPT !.active = TRUE]]
    /\ thr' = [thr EXCEPT ![t] = [@ EXCEPT !.pc = "match",
                                           !.status = XBEGIN_STARTED]]
    /\ gh' = [gh EXCEPT ![t] = [@ EXCEPT !.begins = @ + 1,
                                         !.snap = data, !.trig = -1,
                                         !.dirty = FALSE, !.ran = 0,
                                         !.xends = 0]]
    /\ UNCHANGED <<data, live, code, word, decoded, opt>>

\* A forced abort (capacity, debug, nesting, interrupt, a conflict with a
\* thread outside the model) of an active transaction, at any point between
\* _xbegin and _xend: also before the first statement of the body.
HwAbort(t) ==
    /\ t \in live
    /\ cpu[t].active
    /\ \E s \in HwAbortStatuses : AbortTo(t, s)
    /\ gh' = [gh EXCEPT ![t] = [@ EXCEPT !.hw = @ + 1]]
    /\ UNCHANGED <<live, code, word, decoded, opt>>

\* _xabort(c): aborts the active transaction with the status of c; outside
\* a transaction the instruction is a no-op and the thread goes on as next.
xabort(t, c, next) ==
    IF cpu[t].active
    THEN AbortTo(t, XABORT_STATUS(c))
    ELSE /\ cpu' = cpu
         /\ data' = data
         /\ thr' = [thr EXCEPT ![t] = next]

\* _xend() publishing the writes without ending the transaction.
xend_keeps_active(t) ==
    /\ t \in live
    /\ thr[t].pc = "xend"
    /\ data' = View(t)
    /\ cpu' = cpu
    /\ thr' = [thr EXCEPT ![t] = [@ EXCEPT !.pc = "ret", !.ret = Ok]]
    /\ gh' = [gh EXCEPT ![t] = [@ EXCEPT !.xends = @ + 1]]
    /\ UNCHANGED <<live, code, word, decoded, opt>>

\* _xend(): commits the active transaction, publishing its writes; with no
\* transaction active the instruction faults.
xend(t) ==
    /\ t \in live
    /\ thr[t].pc = "xend"
    /\ IF cpu[t].active
       THEN /\ data' = View(t)
            /\ cpu' = [cpu EXCEPT ![t] = IdleCpu]
            /\ thr' = [thr EXCEPT ![t] = [@ EXCEPT !.pc = "ret", !.ret = Ok]]
       ELSE /\ data' = data
            /\ cpu' = cpu
            /\ thr' = [thr EXCEPT ![t] = [@ EXCEPT !.pc = "fault"]]
    /\ gh' = [gh EXCEPT ![t] = [@ EXCEPT !.xends = @ + 1]]
    /\ UNCHANGED <<live, code, word, decoded, opt>>

\* *data += 1 executed outside a transaction by thread t, which goes on as
\* next with history hist: the write reaches memory at once, and a
\* transaction of another thread that has accessed the data is aborted.
Store(t, next, hist) ==
    /\ data' = data + 1
    /\ IF Contended(t)
       THEN \E s \in ConflictStatuses :
              /\ cpu' = [u \in Threads |->
                           IF u # t /\ Holds(u) THEN IdleCpu ELSE cpu[u]]
              /\ thr' = [u \in Threads |->
                           IF u = t THEN next
                           ELSE IF Holds(u)
                           THEN [thr[u] EXCEPT !.pc = "match", !.status = s]
                           ELSE thr[u]]
              /\ gh' = [u \in Threads |->
                          IF u = t THEN hist
                          ELSE IF Holds(u)
                          THEN [gh[u] EXCEPT !.hw = @ + 1]
                          ELSE gh[u]]
       ELSE /\ cpu' = cpu
            /\ thr' = [thr EXCEPT ![t] = next]
            /\ gh' = [gh EXCEPT ![t] = hist]

\* A thread that is in no call of the crate writes *data += 1.
PlainWrite(t) ==
    /\ t \in live
    /\ thr[t].pc \in {"idle", "done"}
    /\ thr[t].calls < MaxCalls
    /\ Store(t, [thr[t] EXCEPT !.calls = @ + 1], gh[t])
    /\ UNCHANGED <<live, code, word, decoded, opt>>

(***************************************************************************)
(* The abort trigger                                                       *)
(***************************************************************************)

\* abort_<c>() panicking when no transaction is active, and executing
\* _xabort(c) when one is.
abort_N_checked(t, c, next) ==
    IF xtest(t) = 0
    THEN /\ cpu' = cpu
         /\ data' = data
         /\ thr' = [thr EXCEPT ![t] = [next EXCEPT !.pc = "panic"]]
    ELSE xabort(t, c, next)

\* abort_functions::abort_<c>(): returns when _xtest() != 0, that is when a
\* transaction is active, and executes _xabort(c) otherwise.
abort_N(t, c, next) ==
    IF xtest(t) # 0
    THEN /\ cpu' = cpu
         /\ data' = data
         /\ thr' = [thr EXCEPT ![t] = next]
    ELSE xabort(t, c, next)

\* pub fn abort(code: u8): the match dispatches code to abort_<code>().
abort(t, c, next) == abort_N(t, c, next)

\* abort(c) reaching the transactions of the other threads: each active one
\* is aborted with the status of c.
CallAbort_global(t, c) ==
    /\ t \in live
    /\ thr[t].pc \in {"idle", "done"}
    /\ cpu' = [u \in Threads |->
                 IF u # t /\ cpu[u].active THEN IdleCpu ELSE cpu[u]]
    /\ thr' = [u \in Threads |->
                 IF u # t /\ cpu[u].active
                 THEN [thr[u] EXCEPT !.pc = "match",
                                     !.status = XABORT_STATUS(c)]
                 ELSE thr[u]]
    /\ data' = data
    /\ gh' = [gh EXCEPT ![t] = [@ EXCEPT !.outside = TRUE]]
    /\ UNCHANGED <<live, code, word, decoded, opt>>

\* abort(c) called by a thread that is in no call of transaction.
CallAbort(t, c) ==
    /\ t \in live
    /\ thr[t].pc \in {"idle", "done"}
    /\ abort(t, c, thr[t])
    /\ gh' = [gh EXCEPT ![t] = [@ EXCEPT !.outside = TRUE]]
    /\ UNCHANGED <<live, code, word, decoded, opt>>

(***************************************************************************)
(* transaction                                                             *)
(***************************************************************************)

\* The caller calls transaction(data, lambda).
CallTransaction(t, body) ==
    /\ t \in live
    /\ thr[t].pc \in {"idle", "done"}
    /\ thr[t].calls < MaxCalls
    /\ thr' = [thr EXCEPT ![t] =
                 [IdleThread EXCEPT !.pc = "xbegin", !.api = "transaction",
                                    !.body = body, !.calls = thr[t].calls + 1]]
    /\ gh' = [gh EXCEPT ![t] = [NoHistory EXCEPT !.start = data]]
    /\ UNCHANGED <<data, cpu, live, code, word, decoded, opt>>

\* transaction with the started arm written as 0 instead of 0xFFFFFFFF.
TxMatch_zero_arm(t) ==
    /\ t \in live
    /\ thr[t].pc = "match"
    /\ \/ /\ thr[t].status = U32(0)
          /\ thr' = [thr EXCEPT ![t] = [@ EXCEPT !.pc = "lambda", !.bpc = 1]]
          /\ gh' = [gh EXCEPT ![t] = [@ EXCEPT !.ran = @ + 1]]
       \/ /\ thr[t].status # U32(0)
          /\ gh' = gh
          /\ \E r \in into_abort(thr[t].status) :
               thr' = [thr EXCEPT ![t] =
                         IF r = Undefined
                         THEN [@ EXCEPT !.pc = "ub"]
                         ELSE [@ EXCEPT !.pc = "ret", !.ret = r]]
    /\ UNCHANGED <<data, cpu, live, code, word, decoded, opt>>

\* transaction with _xend() executed before lambda(data) instead of after.
TxMatch_xend_first(t) ==
    /\ t \in live
    /\ thr[t].pc = "match"
    /\ \/ /\ thr[t].status = XBEGIN_STARTED
          /\ cpu' = [cpu EXCEPT ![t] = IdleCpu]
          /\ thr' = [thr EXCEPT ![t] = [@ EXCEPT !.pc = "lambda", !.bpc = 1]]
          /\ gh' = [gh EXCEPT ![t] = [@ EXCEPT !.ran = @ + 1]]
       \/ /\ thr[t].status # XBEGIN_STARTED
          /\ cpu' = cpu
          /\ gh' = gh
          /\ \E r \in into_abort(thr[t].status) :
               thr' = [thr EXCEPT ![t] =
                         IF r = Undefined
                         THEN [@ EXCEPT !.pc = "ub"]
                         ELSE [@ EXCEPT !.pc = "ret", !.ret = r]]
    /\ UNCHANGED <<data, live, code, word, decoded, opt>>

\* match unsafe { _xbegin() }: the arm 0xFFFFFFFF calls lambda; the arm
\* arg returns into_abort(arg), which is undefined for some arg.
TxMatch(t) ==
    /\ t \in live
    /\ thr[t].pc = "match"
    /\ \/ /\ thr[t].status = XBEGIN_STARTED
          /\ thr' = [thr EXCEPT ![t] = [@ EXCEPT !.pc = "lambda", !.bpc = 1]]
          /\ gh' = [gh EXCEPT ![t] = [@ EXCEPT !.ran = @ + 1]]
       \/ /\ thr[t].status # XBEGIN_STARTED
          /\ gh' = gh
          /\ \E r \in into_abort(thr[t].status) :
               thr' = [thr EXCEPT ![t] =
                         IF r = Undefined
                         THEN [@ EXCEPT !.pc = "ub"]
                         ELSE [@ EXCEPT !.pc = "ret", !.ret = r]]
    /\ UNCHANGED <<data, cpu, live, code, word, decoded, opt>>

\* lambda(data): one statement of the body, or its return to transaction.
Lambda(t) ==
    /\ t \in live
    /\ thr[t].pc = "lambda"
    /\ LET i == thr[t].bpc
           b == thr[t].body
           next == [thr[t] EXCEPT !.bpc = i + 1]
       IN  \/ /\ i > Len(b)
              /\ thr' = [thr EXCEPT ![t] = [@ EXCEPT !.pc = "xend"]]
              /\ UNCHANGED <<data, cpu, gh>>
           \/ /\ i <= Len(b)
              /\ b[i].op = "inc"
              /\ IF ~cpu[t].active
                 THEN Store(t, next, [gh[t] EXCEPT !.dirty = TRUE])
                 ELSE IF Contended(t)
                 THEN /\ \E s \in ConflictStatuses : AbortTo(t, s)
                      /\ gh' = [gh EXCEPT ![t] = [@ EXCEPT !.hw = @ + 1]]
                 ELSE /\ cpu' = [cpu EXCEPT ![t] =
                                   [@ EXCEPT !.wbuf = View(t) + 1,
                                             !.touched = TRUE]]
                      /\ data' = data
                      /\ thr' = [thr EXCEPT ![t] = next]
                      /\ gh' = [gh EXCEPT ![t] = [@ EXCEPT !.dirty = TRUE]]
           \/ /\ i <= Len(b)
              /\ b[i].op = "abort"
              /\ abort(t, b[i].c, next)
              /\ gh' = [gh EXCEPT ![t] = [@ EXCEPT !.trig = b[i].c]]
           \/ /\ i <= Len(b)
              /\ b[i].op = "xabort"
              /\ xabort(t, b[i].c, next)
              /\ UNCHANGED gh
           \/ /\ i <= Len(b)
              /\ b[i].op = "abort_if"
              /\ IF View(t) = b[i].v
                 THEN /\ abort(t, b[i].c, next)
                      /\ gh' = [gh EXCEPT ![t] = [@ EXCEPT !.trig = b[i].c]]
                 ELSE /\ thr' = [thr EXCEPT ![t] = next]
                      /\ UNCHANGED <<data, cpu, gh>>
    /\ UNCHANGED <<live, code, word, decoded, opt>>

\* transaction starting over when the attempt ended with Err(Retry).
TxReturn_retries(t) ==
    /\ t \in live
    /\ thr[t].pc = "ret"
    /\ thr[t].api = "transaction"
    /\ thr' = [thr EXCEPT ![t] =
                 IF thr[t].ret = Err(Retry) /\ gh[t].begins < 2
                 THEN [@ EXCEPT !.pc = "xbegin"]
                 ELSE [@ EXCEPT !.pc = "done", !.result = thr[t].ret]]
    /\ gh' = [gh EXCEPT ![t] =
                [@ EXCEPT !.outcomes = Append(@, thr[t].ret),
                           !.ran = 0, !.xends = 0]]
    /\ UNCHANGED <<data, cpu, live, code, word, decoded, opt>>

\* transaction returns to a caller that called it directly.
TxReturn(t) ==
    /\ t \in live
    /\ thr[t].pc = "ret"
    /\ thr[t].api = "transaction"
    /\ thr' = [thr EXCEPT ![t] = [@ EXCEPT !.pc = "done", !.result = thr[t].ret]]
    /\ gh' = [gh EXCEPT ![t] =
                [@ EXCEPT !.outcomes = Append(@, thr[t].ret),
                           !.ran = 0, !.xends = 0]]
    /\ UNCHANGED <<data, cpu, live, code, word, decoded, opt>>

(***************************************************************************)
(* transaction_retry                                                       *)
(***************************************************************************)

\* None taken as two attempts.
RetriesInto_default(r) == IF r.some THEN r.n ELSE 2

\* The limit tested with > instead of >=.
RetryExhausted_strict(curr, retries) == curr > retries

\* let retries = match retries.into() { None => 0, Some(x) => x }.
RetriesInto(r) == IF r.some THEN r.n ELSE 0

\* if curr >= retries { return Err(AbortCode::Retry) }.
RetryExhausted(curr, retries) == curr >= retries

\* The caller calls transaction_retry(data, lambda, retries); the loop
\* calls transaction.
CallTransactionRetry(t, body, r) ==
    /\ t \in live
    /\ thr[t].pc \in {"idle", "done"}
    /\ thr[t].calls < MaxCalls
    /\ thr' = [thr EXCEPT ![t] =
                 [IdleThread EXCEPT !.pc = "xbegin",
                                    !.api = "transaction_retry",
                                    !.arg = r, !.retries = RetriesInto(r),
                                    !.curr = 0, !.body = body,
                                    !.calls = thr[t].calls + 1]]
    /\ gh' = [gh EXCEPT ![t] = [NoHistory EXCEPT !.start = data]]
    /\ UNCHANGED <<data, cpu, live, code, word, decoded, opt>>

\* transaction_retry looping on every Err, not on Err(Retry) alone.
RetryMatch_any_err(t) ==
    /\ t \in live
    /\ thr[t].pc = "ret"
    /\ thr[t].api = "transaction_retry"
    /\ \/ /\ thr[t].ret.kind = "Err"
          /\ RetryExhausted(thr[t].curr + 1, thr[t].retries)
          /\ thr' = [thr EXCEPT ![t] = [@ EXCEPT !.curr = @ + 1, !.pc = "done",
                                                 !.result = thr[t].ret]]
       \/ /\ thr[t].ret.kind = "Err"
          /\ ~RetryExhausted(thr[t].curr + 1, thr[t].retries)
          /\ thr' = [thr EXCEPT ![t] = [@ EXCEPT !.curr = @ + 1,
                                                 !.pc = "xbegin"]]
       \/ /\ thr[t].ret.kind # "Err"
          /\ thr' = [thr EXCEPT ![t] = [@ EXCEPT !.pc = "done",
                                                 !.result = thr[t].ret]]
    /\ gh' = [gh EXCEPT ![t] =
                [@ EXCEPT !.outcomes = Append(@, thr[t].ret),
                           !.ran = 0, !.xends = 0]]
    /\ UNCHANGED <<data, cpu, live, code, word, decoded, opt>>

\* transaction_retry looping on every output, Ok(()) included.
RetryMatch_loops_on_ok(t) ==
    /\ t \in live
    /\ thr[t].pc = "ret"
    /\ thr[t].api = "transaction_retry"
    /\ \/ /\ RetryExhausted(thr[t].curr + 1, thr[t].retries)
          /\ thr' = [thr EXCEPT ![t] = [@ EXCEPT !.curr = @ + 1, !.pc = "done",
                                                 !.result = thr[t].ret]]
       \/ /\ ~RetryExhausted(thr[t].curr + 1, thr[t].retries)
          /\ thr' = [thr EXCEPT ![t] = [@ EXCEPT !.curr = @ + 1,
                                                 !.pc = "xbegin"]]
    /\ gh' = [gh EXCEPT ![t] =
                [@ EXCEPT !.outcomes = Append(@, thr[t].ret),
                           !.ran = 0, !.xends = 0]]
    /\ UNCHANGED <<data, cpu, live, code, word, decoded, opt>>

\* match crate::transaction(data, &lambda): on Err(Retry) count the attempt
\* and either return Err(Retry) or loop; return every other output.
RetryMatch(t) ==
    /\ t \in live
    /\ thr[t].pc = "ret"
    /\ thr[t].api = "transaction_retry"
    /\ \/ /\ thr[t].ret = Err(Retry)
          /\ RetryExhausted(thr[t].curr + 1, thr[t].retries)
          /\ thr' = [thr EXCEPT ![t] = [@ EXCEPT !.curr = @ + 1, !.pc = "done",
                                                 !.result = Err(Retry)]]
       \/ /\ thr[t].ret = Err(Retry)
          /\ ~RetryExhausted(thr[t].curr + 1, thr[t].retries)
          /\ thr' = [thr EXCEPT ![t] = [@ EXCEPT !.curr = @ + 1,
                                                 !.pc = "xbegin"]]
       \/ /\ thr[t].ret # Err(Retry)
          /\ thr' = [thr EXCEPT ![t] = [@ EXCEPT !.pc = "done",
                                                 !.result = thr[t].ret]]
    /\ gh' = [gh EXCEPT ![t] =
                [@ EXCEPT !.outcomes = Append(@, thr[t].ret),
                           !.ran = 0, !.xends = 0]]
    /\ UNCHANGED <<data, cpu, live, code, word, decoded, opt>>

(***************************************************************************)
(* Specification of the executor, the retry driver and the trigger         *)
(***************************************************************************)

Next ==
    \E t \in Threads :
        \/ \E b \in Bodies : CallTransaction(t, b)
        \/ \E b \in Bodies, r \in RetriesArgs : CallTransactionRetry(t, b, r)
        \/ \E c \in SampleCodes : CallAbort(t, c)
        \/ xbegin(t)
        \/ HwAbort(t)
        \/ TxMatch(t)
        \/ Lambda(t)
        \/ xend(t)
        \/ TxReturn(t)
        \/ RetryMatch(t)

Spec == Init /\ [][Next]_vars

(***************************************************************************)
(* Specification of two threads sharing the data                           *)
(***************************************************************************)

\* Bodies of one and of two writes, and the retry limit of the two threads.
ConcBodies == {<<Inc>>, <<Inc, Inc>>}
ConcRetries == {Some(2)}

\* The number of calls and plain writes each of the two threads makes.
ConcCalls == 1

\* Both threads run.
InitConc ==
    /\ InitThreads
    /\ InitRegistry
    /\ live = Threads

\* The two threads call transaction and transaction_retry on the same data,
\* write it outside transactions and call abort before their first call; the
\* only aborts are their conflicts.
NextConc ==
    \E t \in Threads :
        \/ /\ thr[t].calls < ConcCalls
           /\ \E b \in ConcBodies : CallTransaction(t, b)
        \/ /\ thr[t].calls < ConcCalls
           /\ \E b \in ConcBodies, r \in ConcRetries :
                CallTransactionRetry(t, b, r)
        \/ /\ thr[t].calls < ConcCalls
           /\ PlainWrite(t)
        \/ /\ thr[t].pc = "idle"
           /\ \E c \in SampleCodes : CallAbort(t, c)
        \/ xbegin(t)
        \/ TxMatch(t)
        \/ Lambda(t)
        \/ xend(t)
        \/ TxReturn(t)
        \/ RetryMatch(t)

SpecConc == InitConc /\ [][NextConc]_vars

(***************************************************************************)
(* Specification of the registry: encode and decode on their own           *)
(***************************************************************************)

InitCodec ==
    /\ InitThreads
    /\ InitRegistry
    /\ live = {}

\* The constant abort_codes::abort_<c> is handed to the decoder.
Encode(c) ==
    /\ InitRegistry
    /\ code' = c
    /\ word' = abort_codes(c)
    /\ decoded' = NoResult
    /\ UNCHANGED <<data, cpu, thr, gh, live, opt>>

\* A raw status of the hardware is handed to the decoder.
Load(w) ==
    /\ InitRegistry
    /\ code' = -1
    /\ word' = w
    /\ decoded' = NoResult
    /\ UNCHANGED <<data, cpu, thr, gh, live, opt>>

\* into_abort(word).
Decode ==
    /\ decoded = NoResult
    /\ word # XBEGIN_STARTED
    /\ decoded' \in into_abort(word)
    /\ UNCHANGED <<data, cpu, thr, gh, live, code, word, opt>>

\* into_code on the reason the decoder returned.
IntoCode ==
    /\ decoded.kind = "Err"
    /\ opt = NoOption
    /\ opt' = into_code(decoded.code)
    /\ UNCHANGED <<data, cpu, thr, gh, live, code, word, decoded>>

NextCodec ==
    \/ \E c \in Codes : Encode(c)
    \/ \E w \in RawStatuses : Load(w)
    \/ Decode
    \/ IntoCode

SpecCodec == InitCodec /\ [][NextCodec]_vars

(***************************************************************************)
(* Properties of the executor, the retry driver and the trigger            *)
(***************************************************************************)

\* The call of thread t has returned to its caller.
Returned(t) == thr[t].pc = "done"

\* The body b calls neither abort nor _xabort.
NoAbortCall(b) == \A i \in 1 .. Len(b) : b[i].op = "inc"

\* Every attempt of t's call so far ended with Err(Retry).
AllRetry(t) ==
    \A i \in 1 .. Len(gh[t].outcomes) : gh[t].outcomes[i] = Err(Retry)

Max(a, b) == IF a >= b THEN a ELSE b

\* C1: when the body calls abort(c) in its active transaction and no abort
\* is forced, transaction returns Err(Code c) instead of committing.
C1_AbortInsideAborts ==
    \A t \in live :
        (/\ Returned(t)
         /\ thr[t].api = "transaction"
         /\ gh[t].trig # -1
         /\ gh[t].hw = 0)
        => thr[t].result = Err(Code(gh[t].trig))

\* C2: whenever transaction or transaction_retry returns an Err, the shared
\* data equals its value before that attempt began (and, for a whole call,
\* its value before the call): no write of the aborted attempt is visible.
C2_ErrLeavesDataUnchanged ==
    \A t \in live :
        /\ (thr[t].pc = "ret" /\ thr[t].ret.kind = "Err")
           => data = gh[t].snap
        /\ (Returned(t) /\ thr[t].result.kind = "Err")
           => (data = gh[t].snap /\ data = gh[t].start)

\* A call returned Err from an attempt whose body had written to data.
C2_Witness ==
    \E t \in live :
        /\ Returned(t)
        /\ thr[t].result.kind = "Err"
        /\ gh[t].dirty
        /\ data = gh[t].snap

\* C3: a transaction whose body calls no abort and that meets no forced
\* abort returns Ok(()), and the caller then sees every write of the body.
C3_PlainTransactionCommits ==
    \A t \in live :
        (/\ Returned(t)
         /\ thr[t].api = "transaction"
         /\ NoAbortCall(thr[t].body)
         /\ gh[t].hw = 0)
        => (thr[t].result = Ok /\ data = gh[t].start + Len(thr[t].body))

\* A plain transaction has returned Ok with its increment visible.
C3_Witness ==
    \E t \in live :
        /\ Returned(t)
        /\ thr[t].api = "transaction"
        /\ thr[t].body = <<Inc>>
        /\ gh[t].hw = 0
        /\ thr[t].result = Ok
        /\ data = gh[t].start + 1

\* C4: transaction_retry with retries = None issues exactly one _xbegin,
\* whatever the outcome of the attempt, and returns that outcome.
C4_NoneIsOneAttempt ==
    \A t \in live :
        (thr[t].api = "transaction_retry" /\ thr[t].arg = None)
        => /\ gh[t].begins <= 1
           /\ Returned(t)
              => /\ gh[t].begins = 1
                 /\ gh[t].outcomes = <<thr[t].result>>

\* transaction_retry(.., None) has returned Err(Retry) after one attempt.
C4_Witness ==
    \E t \in live :
        /\ Returned(t)
        /\ thr[t].api = "transaction_retry"
        /\ thr[t].arg = None
        /\ thr[t].result = Err(Retry)
        /\ gh[t].begins = 1

\* C5 as stated: with Some(N) and every attempt ending with Err(Retry),
\* exactly N attempts are made, for every N, and Err(Retry) is returned.
C5_SomeNIsNAttempts ==
    \A t \in live :
        (/\ Returned(t)
         /\ thr[t].api = "transaction_retry"
         /\ thr[t].arg.some
         /\ AllRetry(t))
        => (gh[t].begins = thr[t].arg.n /\ thr[t].result = Err(Retry))

\* C5 amended: with Some(N) and every attempt ending with Err(Retry),
\* exactly max(1, N) attempts are made (one for N = 0, N for N >= 1) and
\* Err(Retry) is returned without a further attempt.
C5_SomeNIsMaxOneNAttempts ==
    \A t \in live :
        (/\ thr[t].api = "transaction_retry"
         /\ thr[t].arg.some
         /\ AllRetry(t))
        => /\ gh[t].begins <= Max(1, thr[t].arg.n)
           /\ Returned(t)
              => /\ gh[t].begins = Max(1, thr[t].arg.n)
                 /\ Len(gh[t].outcomes) = gh[t].begins
                 /\ thr[t].result = Err(Retry)

\* transaction_retry(.., Some(3)) has returned Err(Retry) after three
\* attempts that all ended with Err(Retry).
C5_Witness ==
    \E t \in live :
        /\ Returned(t)
        /\ thr[t].api = "transaction_retry"
        /\ thr[t].arg = Some(3)
        /\ gh[t].outcomes = <<Err(Retry), Err(Retry), Err(Retry)>>
        /\ gh[t].begins = 3
        /\ thr[t].result = Err(Retry)

\* C6: in transaction_retry an attempt that ends with an Err other than
\* Err(Retry) is the last one: it is returned at once and no further
\* _xbegin is issued, whatever retries is.
C6_NonRetryErrIsLast ==
    \A t \in live :
        thr[t].api = "transaction_retry"
        => \A i \in 1 .. Len(gh[t].outcomes) :
              (gh[t].outcomes[i].kind = "Err" /\ gh[t].outcomes[i] # Err(Retry))
              => /\ i = Len(gh[t].outcomes)
                 /\ gh[t].begins = i
                 /\ Returned(t)
                 /\ thr[t].result = gh[t].outcomes[i]

\* With Some(N), N > 1, the first attempt ended with an explicit code and
\* the call returned it after that one attempt.
C6_Witness ==
    \E t \in live :
        /\ Returned(t)
        /\ thr[t].api = "transaction_retry"
        /\ thr[t].arg.some
        /\ thr[t].arg.n > 1
        /\ gh[t].outcomes = <<Err(Code(7))>>
        /\ gh[t].begins = 1
        /\ thr[t].result = Err(Code(7))

\* C7: the N of Some(N) is the number of retries: with every attempt ending
\* with Err(Retry), N + 1 _xbegin are issued before Err(Retry) is returned.
C7_SomeNIsNRetries ==
    \A t \in live :
        (/\ Returned(t)
         /\ thr[t].api = "transaction_retry"
         /\ thr[t].arg.some
         /\ AllRetry(t))
        => (gh[t].begins = thr[t].arg.n + 1 /\ thr[t].result = Err(Retry))

(***************************************************************************)
(* Properties of the registry                                              *)
(***************************************************************************)

\* The reason of the highest-priority flag set in the status w, in the
\* order Retry > Conflict > Capacity > Debug > Nested.
HighestPriority(w) ==
    IF 1 \in w THEN Retry
    ELSE IF 2 \in w THEN Conflict
    ELSE IF 3 \in w THEN Capacity
    ELSE IF 4 \in w THEN Debug
    ELSE Nested

\* C8: for every code c, decoding the encoded status of c gives the explicit
\* reason of exactly c: into_abort((c << 24) + 1) = Err(Code c).
C8_RoundTrip ==
    (code # -1 /\ decoded # NoResult) => decoded = Err(Code(code))

\* The encoded status of 255 has been decoded to Err(Code255).
C8_Witness ==
    /\ code = 255
    /\ word = abort_codes_table[255]
    /\ decoded = Err(Code(255))

\* C9: for every code c the constant (c << 24) + 1 has bit 0 set, bits
\* 24..31 equal to c and bits 1..23 clear, and equals (c << 24) | 1 with no
\* carry out of bit 31.
C9_EncodingShape ==
    code # -1
    => /\ 0 \in word
       /\ Shr(word, 24) = U32(code)
       /\ word \cap (1 .. 23) = {}
       /\ word = Shl(U32(code), 24) \cup {0}
       /\ ~code_gen(code).overflow

\* The constant of 255 is under decode: 0xFF000001.
C9_Witness ==
    /\ code = 255
    /\ word = (24 .. 31) \cup {0}

\* C10: a status with two or more of the built-in flag bits 1..5 set decodes
\* to the reason of its highest-priority flag.
C10_PriorityDecoding ==
    (/\ code = -1
     /\ decoded # NoResult
     /\ Cardinality(word \cap (1 .. 5)) >= 2)
    => decoded = Err(HighestPriority(word))

\* The code held in bits 24..31 of the status w.
HighByte(w) == CHOOSE c \in Codes : U32(c) = Shr(w, 24)

Decoded(t) ==
    /\ thr[t].pc \in {"ret", "ub"}
    /\ thr[t].status # XBEGIN_STARTED

\* C12: when _xbegin returns a status with none of the bits 0..5 set (for
\* example 0), transaction ends in a distinguished fatal failure: it returns
\* neither Ok nor an Err, and does not go on with undefined behaviour.
C12_UnclassifiableIsFatal ==
    \A t \in live :
        (Decoded(t) /\ thr[t].status \cap FlagBits = {})
        => (thr[t].pc = "panic" /\ thr[t].ret = NoResult)

(***************************************************************************)
(* The worked scenario                                                     *)
(***************************************************************************)

\* Thread t is in, or has returned from, transaction_retry(counter,
\* ScenarioBody, Some(5)), called with counter = 0 and met by no forced
\* abort.
ScenarioCalled(t) ==
    /\ thr[t].api = "transaction_retry"
    /\ thr[t].arg = Some(ScenarioRetries)
    /\ thr[t].body = ScenarioBody
    /\ gh[t].start = 0
    /\ gh[t].hw = 0

ScenarioReturned(t) == ScenarioCalled(t) /\ Returned(t)

\* C13 as stated: the one call makes three attempts (the first two commit,
\* the third calls abort(7)), returns Err(Code7) and leaves the counter 2.
C13_ScenarioThreeAttempts ==
    \A t \in live :
        ScenarioReturned(t)
        => /\ gh[t].begins = 3
           /\ thr[t].result = Err(Code(ScenarioCode))
           /\ data = 2

\* C13 amended: the one call makes one attempt, which commits; the call
\* returns Ok(()) and leaves the counter 1.
C13_ScenarioOneAttempt ==
    \A t \in live :
        ScenarioCalled(t)
        => /\ gh[t].begins <= 1
           /\ Returned(t)
              => /\ gh[t].begins = 1
                 /\ gh[t].outcomes = <<Ok>>
                 /\ thr[t].result = Ok
                 /\ data = 1

\* The scenario's call has returned Ok(()) with the counter at 1.
C13_Witness ==
    \E t \in live :
        /\ ScenarioReturned(t)
        /\ thr[t].result = Ok
        /\ data = 1

(***************************************************************************)
(* Properties of the abort trigger inside a body                           *)
(***************************************************************************)

\* C14: once the body has called abort(c) in its active transaction, no
\* later statement of the body is executed in that attempt: control does
\* not come back from the call into the body, nor on to _xend.
C14_NothingRunsAfterAbort ==
    \A t \in live :
        gh[t].trig # -1 => thr[t].pc \notin {"lambda", "xend"}

(***************************************************************************)
(* Properties of two threads sharing the data                              *)
(***************************************************************************)

\* C15: when the transactions of two threads access the same data and one
\* of them writes, the one that loses the conflict is aborted and its call
\* of transaction returns Err(Conflict).
C15_ConflictLoserGetsConflict ==
    \A t \in live :
        (/\ Decoded(t)
         /\ 2 \in thr[t].status
         /\ \A u \in live \ {t} : thr[u].api # "none")
        => (thr[t].pc = "ret" /\ thr[t].ret = Err(Conflict))

\* The number of writes *data += 1 in the body b.
Writes(b) == Cardinality({ i \in 1 .. Len(b) : b[i].op = "inc" })

\* Thread t commits in this step.
Commits(t) == thr[t].pc = "xend" /\ thr'[t].pc = "ret"

\* Thread t, in no call of the crate, writes the data in this step.
WritesPlainly(t) ==
    /\ thr[t].pc \in {"idle", "done"}
    /\ thr'[t].calls = thr[t].calls + 1
    /\ thr'[t].pc = thr[t].pc

\* C16: under every interleaving of the two threads the data changes only
\* by a whole body at its commit or by a write outside a transaction: the
\* writes of a body appear all at once, on top of the value memory holds at
\* the commit, so no part of a body is ever visible and no committed body
\* has read a value that another thread replaced meanwhile.
C16_AtomicCommit ==
    [][ data' # data
        => \E t \in live :
             \/ Commits(t) /\ data' = data + Writes(thr[t].body)
             \/ WritesPlainly(t) /\ data' = data + 1 ]_vars

\* A body of two writes has committed both at once after the other thread's
\* transaction was aborted by the conflict.
C16_Witness ==
    \E t \in live, u \in live :
        /\ t # u
        /\ thr[t].pc = "ret"
        /\ thr[t].ret = Ok
        /\ thr[t].status = XBEGIN_STARTED
        /\ thr[t].body = <<Inc, Inc>>
        /\ data = 2
        /\ thr[u].status \in ConflictStatuses
        /\ gh[u].hw > 0

(***************************************************************************)
(* Properties of the attempts of a call                                    *)
(***************************************************************************)

\* C17: one call of transaction issues exactly one _xbegin: at most one
\* while it runs, exactly one when it has returned, whatever the outcome of
\* the attempt; it never makes a second attempt.
C17_TransactionIsOneAttempt ==
    \A t \in live :
        thr[t].api = "transaction"
        => /\ gh[t].begins <= 1
           /\ Returned(t)
              => /\ gh[t].begins = 1
                 /\ gh[t].outcomes = <<thr[t].result>>

\* transaction has returned Err(Retry) after an abort that may succeed on
\* retry, having issued one _xbegin.
C17_Witness ==
    \E t \in live :
        /\ Returned(t)
        /\ thr[t].api = "transaction"
        /\ thr[t].status = U32(2)
        /\ thr[t].result = Err(Retry)
        /\ gh[t].begins = 1

\* The reason a status with a flag bit set documents: the explicit code of
\* bits 24..31 when bit 0 is set, the highest-priority built-in flag
\* otherwise.
DocumentedReason(w) ==
    IF 0 \in w THEN Code(HighByte(w)) ELSE HighestPriority(w)

\* C18: every attempt aborted with a status that carries a documented
\* reason (a flag among bits 0..5) makes transaction return that reason as
\* an ordinary Err: the call neither panics nor ends the process nor goes
\* undefined.
C18_AbortsAreOrdinaryErrs ==
    \A t \in live :
        (Decoded(t) /\ thr[t].status \cap FlagBits # {})
        => (thr[t].pc = "ret" /\ thr[t].ret = Err(DocumentedReason(thr[t].status)))

\* The state of thread t's current attempt, read off the hardware and the
\* position in the code: Idle before _xbegin, Started while the transaction
\* is active, Committed once _xend has committed it (the last value of
\* _xbegin is still the started one), Aborted once _xbegin has returned an
\* abort status.  Any other combination is no state of an attempt.
Phase(t) ==
    IF cpu[t].active /\ thr[t].pc \in {"match", "lambda", "xend"}
    THEN "Started"
    ELSE IF ~cpu[t].active /\ thr[t].pc \in {"idle", "xbegin"}
    THEN "Idle"
    ELSE IF /\ ~cpu[t].active
            /\ thr[t].pc \in {"ret", "done"}
            /\ thr[t].status = XBEGIN_STARTED
    THEN "Committed"
    ELSE IF /\ ~cpu[t].active
            /\ thr[t].pc \in {"match", "ret", "ub", "done"}
            /\ thr[t].status # XBEGIN_STARTED
    THEN "Aborted"
    ELSE "None"

\* Thread t starts a new call in this step.
Calls(t) == thr'[t].calls = thr[t].calls + 1 /\ thr'[t].pc = "xbegin"

\* The steps of thread t's attempt follow Idle -> Started -> Committed or
\* Aborted; the two ends are left only for the Idle of a new attempt, which
\* is that of a new call or, after Aborted, of transaction_retry's loop.
PhaseStep(t) ==
    LET p == Phase(t)
        q == Phase(t)'
    IN  /\ p # "None"
        /\ q # "None"
        /\ p = "Idle" => q \in {"Idle", "Started"}
        /\ p = "Started" => q \in {"Started", "Committed", "Aborted"}
        /\ p = "Committed" => (q = "Committed" \/ (q = "Idle" /\ Calls(t)))
        /\ p = "Aborted"
           => \/ q = "Aborted"
              \/ q = "Idle" /\ Calls(t)
              \/ /\ q = "Idle"
                 /\ thr[t].api = "transaction_retry"
                 /\ thr[t].ret = Err(Retry)

\* C19: every attempt moves Idle -> Started -> Committed or Aborted; the
\* two ends are terminal and reached only from Started, an attempt is never
\* both, and transaction_retry starts a fresh attempt only after the
\* previous one reached Aborted.
C19_AttemptStateMachine == [][\A t \in live : PhaseStep(t)]_vars

\* transaction_retry runs its second attempt, Started, after the first one
\* was Aborted with Err(Retry).
C19_Witness ==
    \E t \in live :
        /\ thr[t].api = "transaction_retry"
        /\ gh[t].outcomes = <<Err(Retry)>>
        /\ gh[t].begins = 2
        /\ Phase(t) = "Started"

(***************************************************************************)
(* Properties of the abort trigger outside a transaction                   *)
(***************************************************************************)

\* C20 as stated: abort(c) called while no transaction is active is caught
\* through _xtest and fails loudly: the caller does not go on.
C20_AbortOutsideFailsLoudly ==
    \A t \in live : gh[t].outside => thr[t].pc = "panic"

\* C20 amended: abort(c) called while no transaction is active is no error:
\* _xtest() is 0, _xabort(c) is executed and does nothing, and the caller
\* goes on where it was, with no transaction active.
C20_AbortOutsideReturns ==
    \A t \in live :
        gh[t].outside => (thr[t].pc \in {"idle", "done"} /\ xtest(t) = 0)

\* abort was called after a call of transaction had returned, and the
\* caller goes on.
C20_Witness ==
    \E t \in live :
        /\ gh[t].outside
        /\ thr[t].pc = "done"
        /\ thr[t].api = "transaction"

(***************************************************************************)
(* Properties of one call of transaction                                   *)
(***************************************************************************)

\* C21: in one call of transaction, an attempt that started and was never
\* aborted has invoked the body once, executed _xend once after it and
\* returns Ok(()); an attempt aborted before the body started returns the
\* Err of the reason its status documents, with the body never invoked and
\* _xend never executed.
C21_StartedRunsOnceAbortedRunsNever ==
    \A t \in live :
        thr[t].api = "transaction"
        => /\ (thr[t].pc = "ret" /\ thr[t].status = XBEGIN_STARTED)
              => /\ gh[t].ran = 1
                 /\ gh[t].xends = 1
                 /\ thr[t].ret = Ok
           /\ (Decoded(t) /\ gh[t].ran = 0 /\ thr[t].status \cap FlagBits # {})
              => /\ thr[t].pc = "ret"
                 /\ thr[t].ret = Err(DocumentedReason(thr[t].status))
                 /\ gh[t].xends = 0

(***************************************************************************)
(* Properties of cancellation                                              *)
(***************************************************************************)

\* Thread t's attempt leaves Started without committing in this step.
LeavesWithoutCommit(t) == Phase(t) = "Started" /\ Phase(t)' = "Aborted"

\* The step is a statement of t's own body that calls abort or _xabort.
OwnAbort(t) ==
    /\ thr[t].pc = "lambda"
    /\ thr[t].bpc <= Len(thr[t].body)
    /\ thr[t].body[thr[t].bpc].op \in {"abort", "abort_if", "xabort"}

\* The step is an abort the hardware forces on t.
ForcedAbort(t) == gh'[t].hw = gh[t].hw + 1

\* Thread u, in no call of the crate, calls abort in this step.
CallsAbortOutside(u) == ~gh[u].outside /\ gh'[u].outside

\* C22: an attempt in Started is left without a commit only by an abort
\* statement of its own body or by an abort the hardware forces; a step of
\* another thread that calls abort leaves the attempt as it was.
C22_NoExternalCancellation ==
    [][ \A t \in live :
          /\ LeavesWithoutCommit(t) => (OwnAbort(t) \/ ForcedAbort(t))
          /\ \A u \in live \ {t} :
                CallsAbortOutside(u)
                => (cpu'[t] = cpu[t] /\ thr'[t] = thr[t]) ]_vars

\* A thread is about to commit the writes of its body although the other
\* thread has called abort.
C22_Witness ==
    \E t \in live, u \in live :
        /\ t # u
        /\ gh[u].outside
        /\ Phase(t) = "Started"
        /\ thr[t].pc = "xend"
        /\ gh[t].dirty

\* C23: abort(c) called while no transaction is active aborts nothing: the
\* step changes neither the shared data, nor the transaction state of any
\* thread, nor the caller's position, which goes on after the call.
C23_AbortOutsideIsNoOp ==
    [][ \A u \in live :
          CallsAbortOutside(u)
          => /\ xtest(u) = 0
             /\ data' = data
             /\ cpu' = cpu
             /\ thr' = thr ]_vars

\* A thread has called abort with no transaction active and goes on, the
\* data being what it was.
C23_Witness ==
    \E u \in live :
        /\ gh[u].outside
        /\ thr[u].pc = "idle"
        /\ ~cpu[u].active
        /\ data = 0

(***************************************************************************)
(* Properties of the registry: the built-in reasons                        *)
(***************************************************************************)

\* The built-in reason whose flag is bit k of the status.
FlagReason(k) ==
    CASE k = 1 -> Retry
      [] k = 2 -> Conflict
      [] k = 3 -> Capacity
      [] k = 4 -> Debug
      [] k = 5 -> Nested

\* C24: a status with exactly one of the flag bits 1..5 set and no other
\* bit set decodes to the reason of that flag (2 -> Retry, 4 -> Conflict,
\* 8 -> Capacity, 16 -> Debug, 32 -> Nested), and no encoded explicit status
\* (c << 24) + 1 decodes to one of these five reasons.
C24_SingleFlagsDecode ==
    decoded # NoResult
    => /\ \A k \in 1 .. 5 :
             (code = -1 /\ word = {k}) => decoded = Err(FlagReason(k))
       /\ code # -1 => decoded \notin { Err(a) : a \in BuiltIn }

\* The raw status 32 has been decoded to Err(Nested).
C24_Witness ==
    /\ code = -1
    /\ word = U32(32)
    /\ decoded = Err(Nested)

(***************************************************************************)
(* Properties of the retry limit                                           *)
(***************************************************************************)

EarlierAllRetry(t) ==
    \A i \in 1 .. Len(gh[t].outcomes) - 1 : gh[t].outcomes[i] = Err(Retry)

\* C27: when transaction_retry returns Ok(()) after k >= 0 attempts that
\* ended with Err(Retry), the body's effect is in data exactly once: every
\* attempt started from the value data had before the first one, the aborted
\* attempts left nothing, and the attempt that returned Ok was the last.
C27_RetryAppliesBodyOnce ==
    \A t \in live :
        thr[t].api = "transaction_retry"
        => /\ gh[t].begins >= 1 => gh[t].snap = gh[t].start
           /\ (Returned(t) /\ thr[t].result = Ok /\ EarlierAllRetry(t))
              => /\ data = gh[t].start + Writes(thr[t].body)
                 /\ gh[t].begins = Len(gh[t].outcomes)

\* C28: the value transaction_retry returns is the outcome of its last
\* attempt; it is Ok(()) exactly when that attempt committed; it is
\* Err(Retry) only when the number of attempts has reached max(1, N); and
\* every attempt before the last ended with Err(Retry).
C28_ReturnsLastOutcome ==
    \A t \in live :
        (Returned(t) /\ thr[t].api = "transaction_retry")
        => /\ gh[t].begins = Len(gh[t].outcomes)
           /\ gh[t].begins >= 1
           /\ thr[t].result = gh[t].outcomes[Len(gh[t].outcomes)]
           /\ thr[t].result = Ok <=> thr[t].status = XBEGIN_STARTED
           /\ thr[t].result = Err(Retry)
              => gh[t].begins = Max(1, IF thr[t].arg.some THEN thr[t].arg.n ELSE 0)
           /\ EarlierAllRetry(t)

(***************************************************************************)
(* Properties of concurrent callers                                        *)
(***************************************************************************)

\* What the call of thread t added to the counter if its Ok(()) is true:
\* the increments of its body, and nothing for an Err.
Credited(t) == IF thr[t].result = Ok THEN Writes(thr[t].body) ELSE 0

\* Every thread has made one call of transaction or transaction_retry, the
\* calls have returned, and nothing else wrote the data.
AllCallsReturned ==
    \A t \in live :
        /\ thr[t].api # "none"
        /\ thr[t].calls = 1
        /\ Returned(t)

\* C29: with the threads incrementing one counter inside transaction or
\* transaction_retry and no other writer, once all calls have returned the
\* counter is its initial value plus the increments of the calls that
\* returned Ok(()): no update is lost and none is counted twice.
C29_NoLostOrDuplicatedUpdate ==
    (live = Threads /\ AllCallsReturned)
    => data = Credited(1) + Credited(2)

(***************************************************************************)
(* Properties of the commit                                                *)
(***************************************************************************)

\* C30: _xend is executed only while the transaction begun by the same call
\* is active. The call reaches _xend only from the started arm, with its
\* transaction still active, and never executes it with none active (which
\* would fault), whether the body called abort or _xbegin reported an abort.
C30_CommitOnlyWhenActive ==
    \A t \in live :
        /\ thr[t].pc # "fault"
        /\ thr[t].pc = "xend"
           => /\ xtest(t) # 0
              /\ thr[t].status = XBEGIN_STARTED
              /\ gh[t].ran = 1
              /\ gh[t].xends = 0
        /\ gh[t].xends <= gh[t].ran

\* A call whose body called abort has executed _xend and returned Ok(()).
C30_Witness ==
    \E t \in live :
        /\ thr[t].pc = "ret"
        /\ gh[t].trig # -1
        /\ gh[t].xends = 1
        /\ thr[t].ret = Ok

\* The attempt of thread t has ended by an abort: _xbegin has returned an
\* abort status to the match.
AttemptAborted(t) == thr[t].status # XBEGIN_STARTED

\* C31: when transaction or transaction_retry returns, Ok or Err, from a
\* call made with no transaction active, the calling thread has no
\* transaction active; and when an attempt hands its result over, the
\* _xbegin that started it has been matched by exactly one of a commit
\* (_xend) and an abort.
C31_NoTransactionLeftActive ==
    \A t \in live :
        /\ thr[t].pc \in {"idle", "xbegin", "ret", "done"} => xtest(t) = 0
        /\ (thr[t].pc = "ret" /\ thr[t].api # "none")
           => /\ gh[t].begins >= 1
              /\ gh[t].xends <= 1
              /\ gh[t].xends = 1 <=> ~AttemptAborted(t)

\* transaction_retry has returned Ok(()) from its second attempt, the first
\* having been aborted with Err(Retry): one begin was matched by an abort,
\* the other by a commit, and no transaction is active.
C31_Witness ==
    \E t \in live :
        /\ Returned(t)
        /\ thr[t].api = "transaction_retry"
        /\ gh[t].begins = 2
        /\ gh[t].outcomes = <<Err(Retry), Ok>>
        /\ ~AttemptAborted(t)
        /\ xtest(t) = 0

(***************************************************************************)
(* Properties of the registry as a whole                                   *)
(***************************************************************************)

\* The statuses of the five built-in reasons.
BuiltInStatuses == { AbortCodeRepr(a) : a \in BuiltIn }

\* The codes whose constant is the status w.
CodesOf(w) == { d \in Codes : abort_codes_table[d] = w }

\* C32: the 256 constants are pairwise different, and none of them is the
\* status of a built-in reason (2, 4, 8, 16, 32) or the value 0xFFFFFFFF
\* that _xbegin returns for started; the constant of 255 is 0xFF000001.  So
\* a status is never at once two of: started, a built-in reason, the
\* constant of an explicit code.
C32_EncodingsDistinct ==
    /\ code # -1
       => /\ CodesOf(word) = {code}
          /\ word \notin BuiltInStatuses
          /\ word # XBEGIN_STARTED
          /\ code = 255 => word = {0} \cup (24 .. 31)
    /\ Cardinality(CodesOf(word)) <= 1
    /\ ~(word \in BuiltInStatuses /\ CodesOf(word) # {})
    /\ ~(word = XBEGIN_STARTED /\ CodesOf(word) # {})
    /\ XBEGIN_STARTED \notin BuiltInStatuses

\* The constant of 128, 0x80000001, is under decode: it differs from the
\* constant of 0 in bit 31 alone.
C32_Witness ==
    /\ code = 128
    /\ word = {0, 31}
    /\ abort_codes_table[0] = {0}

\* The explicit variants Code0 .. Code255.
Explicit == { Code(c) : c \in Codes }

\* What into_code returns for each explicit variant.
ExplicitCodes == [b \in Explicit |-> into_code(b)]

\* value - 1 underflows for no explicit variant.
NoUnderflow ==
    \A b \in Explicit : ~Sub32(AbortCodeRepr(b), U32(1)).overflow

\* C33: into_code returns None for Retry, Conflict, Capacity, Debug and
\* Nested, and Some(c) for the explicit variant of every c; so decoding the
\* constant of c and converting the reason gives back Some(c), and no other
\* explicit variant converts to the same value.
C33_IntoCodeInvertsEncoding ==
    opt # NoOption
    => /\ decoded.code \in BuiltIn => opt = None
       /\ decoded.code \in Explicit => opt = Some(decoded.code.n)
       /\ code # -1 => opt = Some(code)
       /\ \A b \in Explicit \ {decoded.code} : ExplicitCodes[b] # opt
       /\ NoUnderflow

\* The constant of 255 was decoded to Err(Code255), and into_code gave
\* Some(255).
C33_Witness ==
    /\ code = 255
    /\ decoded = Err(Code(255))
    /\ opt = Some(255)

=============================================================================
